---- MODULE Spec2Model ----
(***************************************************************************)
(* Model of the RabbitMQ client of dev-forum_article (package rabbitmq,    *)
(* worker-pool variant) and of the Broker wrapper around it.               *)
(*                                                                         *)
(* Goroutines are modelled as processes with a program counter each; one   *)
(* action is one step of one goroutine between two accesses to shared      *)
(* state.  A send and the matching receive on an unbuffered Go channel     *)
(* are one step (a rendezvous).                                            *)
(***************************************************************************)
EXTENDS Integers, Sequences, FiniteSets, TLC

(* ------------------------------ bounds -------------------------------- *)
\* Goroutines that call channel() directly (Publish, Consume callers).
NumCallers == 3
\* config.MaxWorkers: capacity of the arbiter's limiter.
MaxWorkers == 2
\* config.MaxRequests: probes the breaker admits while half-open.
MaxRequests == 2
\* config.QueueSize: capacity of publishQueue.
QueueSize == 2
\* Messages handed to ResilientPublish over a run.
MaxMsgs == 3
\* Connections amqp.Dial creates over a run (the first one included).
MaxConns == 2
\* Callers of channel() that run beside the redialers.
NumDialCallers == 2
\* Wire messages the broker delivers to a consumer.
MaxWire == 3
\* Largest error code errorType is called with.
MaxCode == 600
\* RPCs the article server receives.
MaxRPCs == 4
\* Article ids and titles the read store is called with.
MaxIds == 3
MaxTitles == 2
\* Concurrent callers of cmd.DB.Update, and events one stream holds.
NumUpdaters == 2
MaxEvents == 4
\* Callers of channel() in the error-group connection manager.
NumEgCallers == 2

(* ------------------------- program constants -------------------------- *)
connectionError == 1
channelError == 2
\* gobreaker's default ReadyToTrip: ConsecutiveFailures > 5 (no ReadyToTrip
\* is given in the Settings of NewRabbitMQ).
TripThreshold == 5
\* Capacity of notifyConnClose.
NotifyCap == 16

\* amqp error codes.
ContentTooLarge == 311
NoConsumers == 313
ConnectionForced == 320
InvalidPath == 402
AccessRefused == 403
NotFound == 404
ResourceLocked == 405
PreconditionFailed == 406
FrameError == 501
SyntaxError == 502
CommandInvalid == 503
ChannelError == 504
UnexpectedFrame == 505
ResourceError == 506
NotAllowed == 530
NotImplemented == 540
InternalError == 541

(* ------------------------------ processes ----------------------------- *)
\* The publish stage of the pipeline is requester 0, the callers are 1..N.
Pub == 0
Callers == 1..NumCallers
Requesters == {Pub} \cup Callers
\* Goroutines that run ReDial: handleConnectionErrors and a caller of the
\* exported method.
Redialers == {"hce", "ext"}
\* Worker goroutines of the arbiter that can exist at a time: the limiter
\* allows MaxWorkers of them; one more is there to be ruled out.
Workers == 1..(MaxWorkers + 1)
Conns == 1..MaxConns
Msgs == 1..MaxMsgs

VARIABLES
    brokerUp,        \* the broker accepts connections
    connState,       \* per amqp.Connection: "none", "open" or "closed"
    connection,      \* mq.connection: 0 is nil, else a connection
    cancelled,       \* mq.ctx is done (mq.shutdown was called)
    panicked,        \* the process died of a panic
    breaker,         \* gobreaker state and counts of the current generation
    wperm,           \* per worker: the done function Allow() gave it
    dperm,           \* per redialer: the done function Allow() gave dial()
    notifyConnClose, \* buffered channel of close notifications
    rpc,             \* per requester: position in channel()
    rres,            \* per requester: channel received on ask (0 is nil)
    apc,             \* position of handleChannelReads
    areq,            \* the req handleChannelReads holds (-1: none)
    limiter,         \* number of tokens in the limiter channel
    wpc,             \* per worker: position of the goroutine ("none": not running)
    wreq,            \* per worker: the requester whose req it holds (-1: none)
    wres,            \* per worker: result of connection.Channel()
    hpc,             \* position of handleConnectionErrors
    dpc,             \* per redialer: position in ReDial / dial
    dres,            \* per redialer: result of amqp.Dial
    cpc,             \* position of the caller of Close()
    closeRet,        \* what the last Close() returned
    publishQueue,    \* mq.publishQueue
    nextMsg,         \* number of ResilientPublish calls made
    rpRet,           \* what the last ResilientPublish returned
    ppc,             \* position of the publish pipeline
    pmsg,            \* message the pipeline holds (0: none)
    published,       \* messages the broker accepted
    messages,        \* Consume: wire messages waiting in the delivery stream
    messagesClosed,  \* Consume: the delivery stream is closed
    delivered,       \* Consume: number of wire messages the broker delivered
    consumed,        \* Consume: wire messages the decode loop received, in order
    gpc,             \* Consume: position of the decode goroutine
    gevent,          \* Consume: the event the goroutine is sending
    events,          \* Consume: events the caller received, in order
    callerStopped,   \* Consume: the caller no longer receives from events
    ctxDone,         \* Consume: the context given to Consume is cancelled
    errCode,         \* errorType: the code of the last call (-1: no call yet)
    errClass,        \* errorType: what the last call returned
    spc,             \* ArticleServer: position of the handler
    sop,             \* ArticleServer: the RPC being handled
    sstore,          \* ArticleServer: result of the request's storage operation
    sret,            \* ArticleServer: what the last handler returned
    handed,          \* ArticleServer: event types handed to ResilientPublish, in order
    sreqs,           \* ArticleServer: number of RPCs received
    qhash,           \* query.DB: redis hashes, key -> title (0: no such key)
    qindex,          \* query.DB: members of the redis set "articles"
    qlast,           \* query.DB: per id, the last of Create / Delete called on it
    qgot,            \* query.DB: what the last Get returned
    qlist,           \* query.DB: what the last GetMultiple returned
    stream,          \* cmd.DB: events of the article's stream, in order
    upc,             \* cmd.DB: per updater, position in Update
    urev,            \* cmd.DB: per updater, number of the last event it read
    uret,            \* cmd.DB: per updater, what its last Update returned
    ebreaker,        \* error-group variant: gobreaker state and counts
    eperm,           \* error-group variant: the done function Allow() returned
    epc,             \* error-group variant: position of handleChannelReads
    ereq,            \* error-group variant: the caller whose req is held
    ereplies,        \* error-group variant: replies sent on the held req
    eopens,          \* error-group variant: Channel() calls made for the held req
    ereports,        \* error-group variant: report calls made for the held req
    erejected,       \* error-group variant: Allow() rejected the held req
    erpc,            \* error-group variant: per caller, position in channel()
    erres,           \* error-group variant: per caller, channel received (0 is nil)
    epanicked,       \* error-group variant: the process died of a panic
    ectxDone         \* error-group variant: the context of Run is done

connVars == <<brokerUp, connState, connection, cancelled, panicked, notifyConnClose>>
breakerVars == <<breaker, wperm, dperm>>
reqVars == <<rpc, rres>>
arbVars == <<apc, areq, limiter, wpc, wreq, wres>>
dialVars == <<hpc, dpc, dres>>
closeVars == <<cpc, closeRet>>
pubVars == <<publishQueue, nextMsg, rpRet, ppc, pmsg, published>>
consVars == <<messages, messagesClosed, delivered, consumed, gpc, gevent, events, callerStopped, ctxDone>>
classVars == <<errCode, errClass>>
srvVars == <<spc, sop, sstore, sret, handed, sreqs>>
queryVars == <<qhash, qindex, qlast, qgot, qlist>>
cmdVars == <<stream, upc, urev, uret>>
egVars == <<ebreaker, eperm, epc, ereq, ereplies, eopens, ereports, erejected, erpc, erres, epanicked, ectxDone>>
otherVars == <<classVars, srvVars, queryVars, cmdVars, egVars>>
mqVars == <<connVars, breakerVars, reqVars, arbVars, dialVars, closeVars, pubVars>>
vars == <<mqVars, consVars, otherVars>>

(* --------------------------- error classes ---------------------------- *)
\* Mutant: access-refused is taken for a connection-level error.
errorTypeRefusedIsConnection(code) ==
    IF code \in {ContentTooLarge, NoConsumers, NotFound, ResourceLocked, PreconditionFailed}
    THEN channelError
    ELSE connectionError

errorType(code) ==
    IF code \in {ContentTooLarge, NoConsumers, AccessRefused, NotFound,
                 ResourceLocked, PreconditionFailed}
    THEN channelError
    ELSE connectionError

\* err.(*amqp.Error) panics on an error that is no *amqp.Error ("net").
isConnectionError(err) == errorType(err) = connectionError

(* ------------------------------ breaker ------------------------------- *)
\* The generation counter of gobreaker is only compared for equality
\* between Allow() and the done function Allow() returned: a done function
\* is "valid" while no new generation started since its Allow(), "stale"
\* after.
Min(a, b) == IF a < b THEN a ELSE b

Stale(perm) == [h \in DOMAIN perm |-> IF perm[h] = "valid" THEN "stale" ELSE perm[h]]

\* toNewGeneration: counts cleared (setState changes the state first).
toNewGeneration(st) == [state |-> st, requests |-> 0, succ |-> 0, fail |-> 0]

\* Mutant: HalfOpen admits requests without counting them.
AdmitsUncounted(b) == b.state # "open"

\* beforeRequest: the request is admitted.
Admits(b) ==
    /\ b.state # "open"
    /\ ~(b.state = "halfopen" /\ b.requests >= MaxRequests)

\* The breaker reads Requests and ConsecutiveSuccesses only in HalfOpen
\* and ConsecutiveFailures only in Closed, and every change of state clears
\* the counts: a count is kept only in the state that reads it, up to the
\* value it is compared with.
\* counts.onRequest
onRequest(b) ==
    IF b.state = "halfopen"
    THEN [b EXCEPT !.requests = Min(b.requests + 1, MaxRequests)]
    ELSE b

\* afterRequest with the generation unchanged: onSuccess / onFailure.
onSuccess(b) ==
    IF b.state = "halfopen"
    THEN IF b.succ + 1 >= MaxRequests
         THEN toNewGeneration("closed")
         ELSE [b EXCEPT !.succ = b.succ + 1]
    ELSE [b EXCEPT !.fail = 0]

\* Whether the default ReadyToTrip trips on n consecutive failures.
ReadyToTrip(n) == n > TripThreshold

onFailure(b) ==
    IF b.state = "halfopen" THEN toNewGeneration("open")
    ELSE IF ReadyToTrip(b.fail + 1) THEN toNewGeneration("open")
    ELSE [b EXCEPT !.fail = b.fail + 1]

afterRequest(b, success) == IF success THEN onSuccess(b) ELSE onFailure(b)

\* The done function Allow() gave worker h, called with `success`.  A
\* stale one changes nothing.  `drop`: it is the holder's last use of it.
ReportW(h, success, drop) ==
    LET nb == IF wperm[h] = "valid" THEN afterRequest(breaker, success) ELSE breaker
        wp == IF drop THEN [wperm EXCEPT ![h] = "none"] ELSE wperm
    IN  /\ breaker' = nb
        /\ wperm' = IF nb.state # breaker.state THEN Stale(wp) ELSE wp
        /\ dperm' = IF nb.state # breaker.state THEN Stale(dperm) ELSE dperm

\* The done function Allow() gave dial() in redialer p.
ReportD(p, success, drop) ==
    LET nb == IF dperm[p] = "valid" THEN afterRequest(breaker, success) ELSE breaker
        dp == IF drop THEN [dperm EXCEPT ![p] = "none"] ELSE dperm
    IN  /\ breaker' = nb
        /\ dperm' = IF nb.state # breaker.state THEN Stale(dp) ELSE dp
        /\ wperm' = IF nb.state # breaker.state THEN Stale(wperm) ELSE wperm

\* Ids and titles of the articles the read store is called with.
Ids == 1..MaxIds
Titles == 1..MaxTitles

\* A redis key: what stands before the id, and the id.
Keys == {"", "articles:"} \X Ids

\* entity.Article{}: what Scan leaves of an empty reply.
NoArticle == [id |-> 0, title |-> 0]

\* Goroutines inside cmd.DB.Update at the same time.
Updaters == 1..NumUpdaters

\* Goroutines calling channel() of the error-group connection manager.
EgCallers == 1..NumEgCallers

Init ==
    /\ brokerUp = TRUE
    /\ connState = [c \in Conns |-> IF c = 1 THEN "open" ELSE "none"]
    /\ connection = 1
    /\ cancelled = FALSE
    /\ panicked = FALSE
    /\ breaker = toNewGeneration("closed")
    /\ wperm = [w \in Workers |-> "none"]
    /\ dperm = [p \in Redialers |-> "none"]
    /\ notifyConnClose = <<>>
    /\ rpc = [r \in Requesters |-> "idle"]
    /\ rres = [r \in Requesters |-> 0]
    /\ apc = "select"
    /\ areq = -1
    /\ limiter = 0
    /\ wpc = [w \in Workers |-> "none"]
    /\ wreq = [w \in Workers |-> -1]
    /\ wres = [w \in Workers |-> 0]
    /\ hpc = "select"
    /\ dpc = [p \in Redialers |-> "idle"]
    /\ dres = [p \in Redialers |-> 0]
    /\ cpc = "idle"
    /\ closeRet = "none"
    /\ publishQueue = <<>>
    /\ nextMsg = 0
    /\ rpRet = "none"
    /\ ppc = "take"
    /\ pmsg = 0
    /\ published = {}
    /\ messages = <<>>
    /\ messagesClosed = FALSE
    /\ delivered = 0
    /\ consumed = <<>>
    /\ gpc = "range"
    /\ gevent = 0
    /\ events = <<>>
    /\ callerStopped = FALSE
    /\ ctxDone = FALSE
    /\ errCode = -1
    /\ errClass = 0
    /\ spc = "idle"
    /\ sop = "none"
    /\ sstore = "none"
    /\ sret = "none"
    /\ handed = <<>>
    /\ sreqs = 0
    /\ qhash = [k \in Keys |-> 0]
    /\ qindex = {}
    /\ qlast = [id \in Ids |-> "none"]
    /\ qgot = NoArticle
    /\ qlist = <<>>
    /\ stream = <<>>
    /\ upc = [u \in Updaters |-> "idle"]
    /\ urev = [u \in Updaters |-> -1]
    /\ uret = [u \in Updaters |-> "none"]
    /\ ebreaker = toNewGeneration("closed")
    /\ eperm = "nil"
    /\ epc = "select"
    /\ ereq = 0
    /\ ereplies = 0
    /\ eopens = 0
    /\ ereports = 0
    /\ erejected = FALSE
    /\ erpc = [r \in EgCallers |-> "idle"]
    /\ erres = [r \in EgCallers |-> 0]
    /\ epanicked = FALSE
    /\ ectxDone = FALSE

Running == ~panicked

(* ------------------- channel(): part_004 lines 212-224 ----------------- *)
\* A caller enters channel(): ask := make(chan *amqp.Channel).
ChannelCall(r) ==
    /\ Running
    /\ r \in Callers
    /\ rpc[r] = "idle"
    /\ rpc' = [rpc EXCEPT ![r] = "send"]
    /\ UNCHANGED <<otherVars, consVars, connVars, breakerVars, rres, arbVars, dialVars, closeVars, pubVars>>

\* time.Sleep(ReconnectInterval) is over: the loop makes a fresh ask.
ChannelRetry(r) ==
    /\ Running
    /\ rpc[r] = "sleep"
    /\ rpc' = [rpc EXCEPT ![r] = "send"]
    /\ UNCHANGED <<otherVars, consVars, connVars, breakerVars, rres, arbVars, dialVars, closeVars, pubVars>>

\* channel() returned a non-nil channel; the caller uses and drops it.
ChannelReturn(r) ==
    /\ Running
    /\ r \in Callers
    /\ rpc[r] = "got"
    /\ rpc' = [rpc EXCEPT ![r] = "idle"]
    /\ rres' = [rres EXCEPT ![r] = 0]
    /\ UNCHANGED <<otherVars, consVars, connVars, breakerVars, arbVars, dialVars, closeVars, pubVars>>

(* ------------- handleChannelReads: part_004 lines 115-152 -------------- *)
\* case req := <-mq.readChannel, the rendezvous with mq.readChannel <- ask.
ArbRecv(r) ==
    /\ Running
    /\ apc = "select"
    /\ rpc[r] = "send"
    /\ apc' = "limiter"
    /\ areq' = r
    /\ rpc' = [rpc EXCEPT ![r] = "wait"]
    /\ UNCHANGED <<otherVars, consVars, connVars, breakerVars, rres, limiter, wpc, wreq, wres, dialVars, closeVars, pubVars>>

\* case <-ctx.Done(): return
ArbDone ==
    /\ Running
    /\ apc = "select"
    /\ cancelled
    /\ apc' = "done"
    /\ UNCHANGED <<otherVars, consVars, connVars, breakerVars, reqVars, areq, limiter, wpc, wreq, wres, dialVars, closeVars, pubVars>>

\* Mutant: the goroutine is started without a token of the limiter.
LimiterIgnored == TRUE

\* The limiter has room for one more token.
LimiterHasRoom == limiter < MaxWorkers

\* limiter <- struct{}{} ; go func() {...}()
\* The new goroutine is the lowest worker not running.
ArbSpawn ==
    /\ Running
    /\ apc = "limiter"
    /\ LimiterHasRoom
    /\ \E w \in Workers :
          /\ wpc[w] = "none"
          /\ \A v \in Workers : v < w => wpc[v] # "none"
          /\ wpc' = [wpc EXCEPT ![w] = "allow"]
          /\ wreq' = [wreq EXCEPT ![w] = areq]
    /\ limiter' = limiter + 1
    /\ areq' = -1
    /\ apc' = "select"
    /\ UNCHANGED <<otherVars, consVars, connVars, breakerVars, reqVars, wres, dialVars, closeVars, pubVars>>

\* Mutant: channel() returns what it received, nil included.
AfterAskUnchecked(x) == "got"

\* channel := <-ask; if channel != nil { return channel }; time.Sleep(...)
AfterAsk(x) == IF x = 0 THEN "sleep" ELSE "got"

\* req <- x: the rendezvous with channel := <-ask of the requester, which
\* sleeps on nil (0) and returns a channel.  The requester is blocked in
\* the receive from the moment the arbiter took its request, so the send
\* never waits: it is part of the step of the worker that leads to it.
Reply(w, x) ==
    /\ rpc' = [rpc EXCEPT ![wreq[w]] = AfterAsk(x)]
    /\ rres' = [rres EXCEPT ![wreq[w]] = x]

\* Mutant: no return after the rejection, the worker goes on to
\* mq.connection.Channel().
WorkerFallsThrough == "open"

\* Where a worker goes after mq.breaker.Allow() returned an error and it
\* replied nil: to its return.
WorkerAfterReject == "release"

\* succedeed, err := mq.breaker.Allow()
\* if err != nil { req <- nil ; return }
WAllow(w) ==
    /\ Running
    /\ wpc[w] = "allow"
    /\ IF Admits(breaker)
       THEN /\ breaker' = onRequest(breaker)
            /\ wperm' = [wperm EXCEPT ![w] = "valid"]
            /\ wpc' = [wpc EXCEPT ![w] = "open"]
            /\ UNCHANGED reqVars
       ELSE /\ Reply(w, 0)
            /\ wpc' = [wpc EXCEPT ![w] = WorkerAfterReject]
            /\ UNCHANGED <<breaker, wperm>>
    /\ UNCHANGED <<otherVars, consVars, connVars, dperm, apc, areq, limiter, wreq, wres, dialVars, closeVars, pubVars>>

\* Errors connection.Channel() returns on an open connection.
ChannelOpenCodes == {NotFound, ChannelError}

\* dial() holds mq.mutex: it is between Lock() and the deferred Unlock().
MutexHeld == \E p \in Redialers : dpc[p] = "locked"

\* What a read of mq.connection made without the mutex can see: the stored
\* reference, or, while a dial() is at its write, the one being written.
ConnectionRead ==
    {connection} \cup {dres[p] : p \in {q \in Redialers : dpc[q] = "locked"}}

\* What mq.connection.Channel() returns: a channel of the connection
\* (its number), or the code of an *amqp.Error.  On a closed connection it
\* returns amqp.ErrClosed, whose code is ChannelError.
ChannelOutcomesOf(c) ==
    IF c # 0 /\ connState[c] = "open"
    THEN {c} \cup ChannelOpenCodes
    ELSE {ChannelError}

\* The worker reads mq.connection without the mutex.
ChannelOutcomes == UNION {ChannelOutcomesOf(c) : c \in ConnectionRead}

\* channel, err := mq.connection.Channel()
\* if err != nil { req <- nil ; ...
WOpen(w) ==
    /\ Running
    /\ wpc[w] = "open"
    /\ \E o \in ChannelOutcomes :
          /\ wres' = [wres EXCEPT ![w] = o]
          /\ IF o \in Conns
             THEN /\ wpc' = [wpc EXCEPT ![w] = "okReport"]
                  /\ UNCHANGED reqVars
             ELSE /\ wpc' = [wpc EXCEPT ![w] = "errReport"]
                  /\ Reply(w, 0)
    /\ UNCHANGED <<otherVars, consVars, connVars, breakerVars, apc, areq, limiter, wreq, dialVars, closeVars, pubVars>>

\* ... succedeed(false) ; return }
WErrReport(w) ==
    /\ Running
    /\ wpc[w] = "errReport"
    /\ ReportW(w, FALSE, TRUE)
    /\ wpc' = [wpc EXCEPT ![w] = "release"]
    /\ UNCHANGED <<otherVars, consVars, connVars, reqVars, apc, areq, limiter, wreq, wres, dialVars, closeVars, pubVars>>

\* succedeed(true) ; req <- channel
WOkReport(w) ==
    /\ Running
    /\ wpc[w] = "okReport"
    /\ ReportW(w, TRUE, TRUE)
    /\ Reply(w, wres[w])
    /\ wpc' = [wpc EXCEPT ![w] = "release"]
    /\ UNCHANGED <<otherVars, consVars, connVars, apc, areq, limiter, wreq, wres, dialVars, closeVars, pubVars>>

\* defer func() { <-limiter }()
WRelease(w) ==
    /\ Running
    /\ wpc[w] = "release"
    /\ limiter' = limiter - 1
    /\ wpc' = [wpc EXCEPT ![w] = "none"]
    /\ wreq' = [wreq EXCEPT ![w] = -1]
    /\ wres' = [wres EXCEPT ![w] = 0]
    /\ UNCHANGED <<otherVars, consVars, connVars, breakerVars, reqVars, apc, areq, dialVars, closeVars, pubVars>>

(* --------------------------- broker and time --------------------------- *)
\* dial() stores the new connection without calling NotifyClose on it, and
\* neither run() nor NewRabbitMQ does: no connection has notifyConnClose
\* among its close listeners.
NotifyCloseRegistered(c) == FALSE

\* amqp sends the error of a connection shutting down to its listeners.
Notify(q, lost) ==
    IF (\E c \in lost : NotifyCloseRegistered(c)) /\ Len(q) < NotifyCap
    THEN Append(q, ConnectionForced)
    ELSE q

\* The broker becomes unreachable; its connections break.
BrokerDown ==
    /\ Running
    /\ brokerUp
    /\ brokerUp' = FALSE
    /\ connState' = [c \in Conns |-> IF connState[c] = "open" THEN "closed" ELSE connState[c]]
    /\ notifyConnClose' = Notify(notifyConnClose, {c \in Conns : connState[c] = "open"})
    /\ UNCHANGED <<otherVars, consVars, connection, cancelled, panicked, breakerVars, reqVars, arbVars, dialVars, closeVars, pubVars>>

BrokerUp ==
    /\ Running
    /\ ~brokerUp
    /\ brokerUp' = TRUE
    /\ UNCHANGED <<otherVars, consVars, connState, connection, cancelled, panicked, notifyConnClose, breakerVars, reqVars, arbVars, dialVars, closeVars, pubVars>>

\* The broker closes one connection with a connection-level error.
ConnLost(c) ==
    /\ Running
    /\ connState[c] = "open"
    /\ connState' = [connState EXCEPT ![c] = "closed"]
    /\ notifyConnClose' = Notify(notifyConnClose, {c})
    /\ UNCHANGED <<otherVars, consVars, brokerUp, connection, cancelled, panicked, breakerVars, reqVars, arbVars, dialVars, closeVars, pubVars>>

\* Settings.Timeout (config.ClosedTimeout) elapsed: Open becomes HalfOpen.
BreakerTimeout ==
    /\ Running
    /\ breaker.state = "open"
    /\ breaker' = toNewGeneration("halfopen")
    /\ wperm' = Stale(wperm)
    /\ dperm' = Stale(dperm)
    /\ UNCHANGED <<otherVars, consVars, connVars, reqVars, arbVars, dialVars, closeVars, pubVars>>

\* Settings.Interval (config.ClearInterval) elapsed in Closed: counts cleared.
BreakerInterval ==
    /\ Running
    /\ breaker.state = "closed"
    /\ breaker # toNewGeneration("closed")
    /\ breaker' = toNewGeneration("closed")
    /\ wperm' = Stale(wperm)
    /\ dperm' = Stale(dperm)
    /\ UNCHANGED <<otherVars, consVars, connVars, reqVars, arbVars, dialVars, closeVars, pubVars>>

(* ----------- handleConnectionErrors: part_004 lines 155-168 ------------ *)
\* The cases of the select that are ready.
HceReady ==
    (IF Len(notifyConnClose) > 0 THEN {"notify"} ELSE {}) \cup
    (IF cancelled THEN {"done"} ELSE {})

\* select { case e := <-mq.notifyConnClose: ... case <-ctx.Done(): return }
HceSelect ==
    /\ Running
    /\ hpc = "select"
    /\ \E b \in HceReady :
          IF b = "notify"
          THEN /\ notifyConnClose' = Tail(notifyConnClose)
               /\ hpc' = "redial"
               /\ dpc' = [dpc EXCEPT !["hce"] = "allow"]
          ELSE /\ hpc' = "done"
               /\ UNCHANGED <<notifyConnClose, dpc>>
    /\ UNCHANGED <<otherVars, consVars, brokerUp, connState, connection, cancelled, panicked, breakerVars, reqVars, arbVars, dres, closeVars, pubVars>>

(* ------------------- ReDial: part_004 lines 170-183 -------------------- *)
\* A client goroutine calls the exported ReDial (before it calls Close).
ReDialCall ==
    /\ Running
    /\ dpc["ext"] = "idle"
    /\ ~cancelled
    /\ dpc' = [dpc EXCEPT !["ext"] = "allow"]
    /\ UNCHANGED <<otherVars, consVars, connVars, breakerVars, reqVars, arbVars, hpc, dres, closeVars, pubVars>>

\* Where ReDial goes when time.Sleep(ReconnectInterval) is over.
AfterSleep == "allow"

\* time.Sleep(mq.config.ReconnectInterval) is over: next iteration.
ReDialWake(p) ==
    /\ Running
    /\ dpc[p] = "sleep"
    /\ dpc' = [dpc EXCEPT ![p] = AfterSleep]
    /\ UNCHANGED <<otherVars, consVars, connVars, breakerVars, reqVars, arbVars, hpc, dres, closeVars, pubVars>>

(* -------------------- dial: part_004 lines 186-209 --------------------- *)
\* callSucceded, err := mq.breaker.Allow(); a rejection is returned to
\* ReDial, which logs it and sleeps.
DialAllow(p) ==
    /\ Running
    /\ dpc[p] = "allow"
    /\ IF Admits(breaker)
       THEN /\ breaker' = onRequest(breaker)
            /\ dperm' = [dperm EXCEPT ![p] = "valid"]
            /\ dpc' = [dpc EXCEPT ![p] = "dial"]
       ELSE /\ dpc' = [dpc EXCEPT ![p] = "sleep"]
            /\ UNCHANGED <<breaker, dperm>>
    /\ UNCHANGED <<otherVars, consVars, connVars, wperm, reqVars, arbVars, hpc, dres, closeVars, pubVars>>

\* Codes of the *amqp.Error values amqp.Dial returns in the model: the
\* broker closes the handshake (connection-level) or refuses the login
\* (channel-level).
DialCodes == {ConnectionForced, AccessRefused}
\* An error of amqp.Dial that is no *amqp.Error (a network error).
NetError == 0

\* Mutant: the result of amqp.Dial is stored in mq.connection at once, so
\* that a failed dial stores nil.
StoredNilAfterDialError(c) == 0

\* conn is a local: a failed amqp.Dial leaves mq.connection as it was.
StoredAfterDialError(c) == c

\* conn, err := amqp.Dial(mq.url): a new open connection, or an error.
DialCall(p) ==
    /\ Running
    /\ dpc[p] = "dial"
    /\ \/ /\ brokerUp
          /\ \E c \in Conns :
                /\ connState[c] = "none"
                /\ \A d \in Conns : d < c => connState[d] # "none"
                /\ connState' = [connState EXCEPT ![c] = "open"]
                /\ dres' = [dres EXCEPT ![p] = c]
                /\ dpc' = [dpc EXCEPT ![p] = "okReport"]
                /\ UNCHANGED connection
       \/ /\ \E code \in DialCodes \cup (IF brokerUp THEN {} ELSE {NetError}) :
                dres' = [dres EXCEPT ![p] = code]
          /\ dpc' = [dpc EXCEPT ![p] = "errReport"]
          /\ connection' = StoredAfterDialError(connection)
          /\ UNCHANGED connState
    /\ UNCHANGED <<otherVars, consVars, brokerUp, cancelled, panicked, notifyConnClose, breakerVars, reqVars, arbVars, hpc, closeVars, pubVars>>

\* if isConnectionError(err.(*amqp.Error)) { callSucceded(false) }
\* The type assertion panics on an error that is no *amqp.Error.
DialErrClassify(p) ==
    /\ Running
    /\ dpc[p] = "errReport"
    /\ IF dres[p] = NetError
       THEN /\ panicked' = TRUE
            /\ UNCHANGED <<breakerVars, dpc>>
       ELSE /\ IF isConnectionError(dres[p])
               THEN ReportD(p, FALSE, FALSE)
               ELSE UNCHANGED breakerVars
            /\ dpc' = [dpc EXCEPT ![p] = "errReport2"]
            /\ UNCHANGED panicked
    /\ UNCHANGED <<otherVars, consVars, brokerUp, connState, connection, cancelled, notifyConnClose, reqVars, arbVars, hpc, dres, closeVars, pubVars>>

\* callSucceded(true) ; return err   (no else, no return in between)
DialErrReturn(p) ==
    /\ Running
    /\ dpc[p] = "errReport2"
    /\ ReportD(p, TRUE, TRUE)
    /\ dres' = [dres EXCEPT ![p] = 0]
    /\ dpc' = [dpc EXCEPT ![p] = "sleep"]
    /\ UNCHANGED <<otherVars, consVars, connVars, reqVars, arbVars, hpc, closeVars, pubVars>>

\* callSucceded(true)   (amqp.Dial succeeded)
DialOkReport(p) ==
    /\ Running
    /\ dpc[p] = "okReport"
    /\ ReportD(p, TRUE, TRUE)
    /\ dpc' = [dpc EXCEPT ![p] = "install"]
    /\ UNCHANGED <<otherVars, consVars, connVars, reqVars, arbVars, hpc, dres, closeVars, pubVars>>

\* mq.mutex.Lock(); defer mq.mutex.Unlock()
DialLock(p) ==
    /\ Running
    /\ dpc[p] = "install"
    /\ ~MutexHeld
    /\ dpc' = [dpc EXCEPT ![p] = "locked"]
    /\ UNCHANGED <<otherVars, consVars, connVars, breakerVars, reqVars, arbVars, hpc, dres, closeVars, pubVars>>

\* mq.connection = conn; return nil (the mutex is released): ReDial returns.
DialInstall(p) ==
    /\ Running
    /\ dpc[p] = "locked"
    /\ connection' = dres[p]
    /\ dres' = [dres EXCEPT ![p] = 0]
    /\ dpc' = [dpc EXCEPT ![p] = "idle"]
    /\ hpc' = IF p = "hce" THEN "select" ELSE hpc
    /\ UNCHANGED <<otherVars, consVars, brokerUp, connState, cancelled, panicked, notifyConnClose, breakerVars, reqVars, arbVars, closeVars, pubVars>>

(* -------------------- Close: part_004 lines 97-107 --------------------- *)
\* mq.shutdown()
CloseShutdown ==
    /\ Running
    /\ cpc = "idle"
    /\ cancelled' = TRUE
    /\ cpc' = "check"
    /\ UNCHANGED <<otherVars, consVars, brokerUp, connState, connection, panicked, notifyConnClose, breakerVars, reqVars, arbVars, dialVars, closeRet, pubVars>>

\* Mutant: Close() does not ask IsClosed() before it closes.
ShouldCloseUnchecked(c) == c # 0

\* mq.connection != nil && !mq.connection.IsClosed()
ShouldClose(c) == c # 0 /\ connState[c] = "open"

\* What amqp's Connection.Close() can return on a connection in state st:
\* nil or an error of the shutdown on an open one, ErrClosed on a closed one.
CloseReturns(st) == IF st = "open" THEN {"nil", "err"} ELSE {"err"}

\* Close reads mq.connection without the mutex.
\* if mq.connection != nil && !mq.connection.IsClosed() {
\*     if err := mq.connection.Close(); err != nil { return err } }
\* return nil
\* amqp's Close shuts the connection down also when it returns an error.
CloseConn ==
    /\ Running
    /\ cpc = "check"
    /\ \E c \in ConnectionRead :
          IF ShouldClose(c)
          THEN /\ connState' = [connState EXCEPT ![c] = "closed"]
               /\ \E ret \in CloseReturns(connState[c]) : closeRet' = ret
          ELSE /\ closeRet' = "nil"
               /\ UNCHANGED connState
    /\ cpc' = "idle"
    /\ UNCHANGED <<otherVars, consVars, brokerUp, connection, cancelled, panicked, notifyConnClose, breakerVars, reqVars, arbVars, dialVars, pubVars>>

(* ------------------ Enqueue and the publish pipeline ------------------- *)
\* mq.Enqueue(msg): a send on publishQueue that does not block; with the
\* queue at capacity it returns an error and leaves the queue alone.
Enqueue(q, msg) ==
    IF Len(q) >= QueueSize
    THEN [err |-> "full", queue |-> q]
    ELSE [err |-> "nil", queue |-> Append(q, msg)]

\* Mutant: the error of Enqueue is swallowed.
ResilientPublishSwallows(err) == "nil"

\* What ResilientPublish returns for the error Enqueue returned.
ResilientPublishReturn(err) == IF err # "nil" THEN err ELSE "nil"

\* Broker.ResilientPublish(e): msg := MessageFromEvent(e); Enqueue(msg).
\* The events are numbered in the order of the calls.
ResilientPublish ==
    /\ Running
    /\ nextMsg < MaxMsgs
    /\ LET res == Enqueue(publishQueue, nextMsg + 1)
       IN  /\ publishQueue' = res.queue
           /\ rpRet' = ResilientPublishReturn(res.err)
    /\ nextMsg' = nextMsg + 1
    /\ UNCHANGED <<otherVars, consVars, connVars, breakerVars, reqVars, arbVars, dialVars, closeVars, ppc, pmsg, published>>

\* The pipeline takes the next message off publishQueue.
PubTake ==
    /\ Running
    /\ ppc = "take"
    /\ ~cancelled
    /\ Len(publishQueue) > 0
    /\ pmsg' = Head(publishQueue)
    /\ publishQueue' = Tail(publishQueue)
    /\ ppc' = "prepare"
    /\ UNCHANGED <<otherVars, consVars, connVars, breakerVars, reqVars, arbVars, dialVars, closeVars, nextMsg, rpRet, published>>

\* The pipeline's context is cancelled: the stages stop.
PubStop ==
    /\ Running
    /\ ppc = "take"
    /\ cancelled
    /\ ppc' = "done"
    /\ UNCHANGED <<otherVars, consVars, connVars, breakerVars, reqVars, arbVars, dialVars, closeVars, publishQueue, nextMsg, rpRet, pmsg, published>>

\* Topology stage: the message is forwarded unchanged to the publish
\* stage, which asks the arbiter for a channel.
PubPrepare ==
    /\ Running
    /\ ppc = "prepare"
    /\ rpc[Pub] = "idle"
    /\ ppc' = "publish"
    /\ rpc' = [rpc EXCEPT ![Pub] = "send"]
    /\ UNCHANGED <<otherVars, consVars, connVars, breakerVars, rres, arbVars, dialVars, closeVars, publishQueue, nextMsg, rpRet, pmsg, published>>

\* Publish stage: the message is published on the channel acquired; the
\* broker accepts it when the channel's connection is open.
PubPublish ==
    /\ Running
    /\ ppc = "publish"
    /\ rpc[Pub] = "got"
    /\ IF connState[rres[Pub]] = "open"
       THEN /\ published' = published \cup {pmsg}
            /\ pmsg' = 0
            /\ ppc' = "take"
       ELSE /\ ppc' = "requeue"
            /\ UNCHANGED <<published, pmsg>>
    /\ rpc' = [rpc EXCEPT ![Pub] = "idle"]
    /\ rres' = [rres EXCEPT ![Pub] = 0]
    /\ UNCHANGED <<otherVars, consVars, connVars, breakerVars, arbVars, dialVars, closeVars, publishQueue, nextMsg, rpRet>>

\* Resilient path: after the reconnect interval the message goes back on
\* the queue for another attempt; it is never dropped.
PubRequeue ==
    /\ Running
    /\ ppc = "requeue"
    /\ Len(publishQueue) < QueueSize
    /\ publishQueue' = Append(publishQueue, pmsg)
    /\ pmsg' = 0
    /\ ppc' = "take"
    /\ UNCHANGED <<otherVars, consVars, connVars, breakerVars, reqVars, arbVars, dialVars, closeVars, nextMsg, rpRet, published>>

(* ------------------ Broker.Consume: part_002 lines 41-66 --------------- *)
\* The program without the consumer.
progVars == <<mqVars, otherVars>>

\* Bodies of wire messages: the JSON text of event 1, of event 2, a text cut
\* short and an empty body.
Bodies == {<<"{", 1, "}">>, <<"{", 2, "}">>, <<"{", 1>>, <<>>}

\* json.Unmarshal(message.Body, &event): the event of a well-formed body,
\* an error and the zero event otherwise.
Unmarshal(body) ==
    IF Len(body) = 3 /\ body[1] = "{" /\ body[3] = "}"
    THEN [err |-> FALSE, event |-> body[2]]
    ELSE [err |-> TRUE, event |-> 0]

\* Mutant: no continue after the decode error.
SentAlways(r) == <<r.event>>

\* if err != nil { ...; continue } ; events <- event
\* What the loop goes on to send for one message.
Sent(r) == IF r.err THEN <<>> ELSE <<r.event>>

\* The broker delivers a wire message to the consumer's stream.
Deliver ==
    /\ Running
    /\ ~messagesClosed
    /\ delivered < MaxWire
    /\ \E b \in Bodies : messages' = Append(messages, b)
    /\ delivered' = delivered + 1
    /\ UNCHANGED <<progVars, messagesClosed, consumed, gpc, gevent, events, callerStopped, ctxDone>>

\* The context given to Consume is cancelled.
ConsumeCancel ==
    /\ Running
    /\ ~ctxDone
    /\ ctxDone' = TRUE
    /\ UNCHANGED <<progVars, messages, messagesClosed, delivered, consumed, gpc, gevent, events, callerStopped>>

\* The underlying stream closes: the channel is gone, or rabbitmq's Consume
\* closes it for the cancelled context.
MessagesClose ==
    /\ Running
    /\ ~messagesClosed
    /\ messagesClosed' = TRUE
    /\ UNCHANGED <<progVars, messages, delivered, consumed, gpc, gevent, events, callerStopped, ctxDone>>

\* for message := range messages { json.Unmarshal ... }
GoReceive ==
    /\ Running
    /\ gpc = "range"
    /\ messages # <<>>
    /\ messages' = Tail(messages)
    /\ consumed' = Append(consumed, Head(messages))
    /\ LET out == Sent(Unmarshal(Head(messages)))
       IN  IF out = <<>>
           THEN UNCHANGED <<gpc, gevent>>
           ELSE gpc' = "send" /\ gevent' = out[1]
    /\ UNCHANGED <<progVars, messagesClosed, delivered, events, callerStopped, ctxDone>>

\* events <- event: the send on the unbuffered channel meets the caller's
\* receive.
GoSend ==
    /\ Running
    /\ gpc = "send"
    /\ ~callerStopped
    /\ events' = Append(events, gevent)
    /\ gevent' = 0
    /\ gpc' = "range"
    /\ UNCHANGED <<progVars, messages, messagesClosed, delivered, consumed, callerStopped, ctxDone>>

\* The range loop ends: the stream is closed and drained.
GoReturn ==
    /\ Running
    /\ gpc = "range"
    /\ messages = <<>>
    /\ messagesClosed
    /\ gpc' = "done"
    /\ UNCHANGED <<progVars, messages, messagesClosed, delivered, consumed, gevent, events, callerStopped, ctxDone>>

\* The caller stops receiving from the returned channel.
CallerStop ==
    /\ Running
    /\ ~callerStopped
    /\ callerStopped' = TRUE
    /\ UNCHANGED <<progVars, messages, messagesClosed, delivered, consumed, gpc, gevent, events, ctxDone>>

(* ---------------- errorType: part_004 lines 226-258 ------------------- *)
\* Codes errorType is called with: the codes amqp defines and others.
Codes == 0..MaxCode

\* A call of errorType with some code.
ErrorTypeCall ==
    /\ \E code \in Codes :
          /\ errCode' = code
          /\ errClass' = errorType(code)
    /\ UNCHANGED <<mqVars, consVars, srvVars, queryVars, cmdVars, egVars>>

(* ------ ArticleServer Create / Delete / Update: part_003 95-171 ------- *)
RPCs == {"Create", "Delete", "Update"}

\* Type of the event the handler of an RPC builds.
EventTypeOf(op) ==
    CASE op = "Create" -> "Created"
      [] op = "Delete" -> "Deleted"
      [] op = "Update" -> "Updated"

\* A client calls Create, Delete or Update.
SrvCall ==
    /\ spc = "idle"
    /\ sreqs < MaxRPCs
    /\ \E op \in RPCs : sop' = op
    /\ sreqs' = sreqs + 1
    /\ spc' = "storage"
    /\ sstore' = "none"
    /\ sret' = "none"
    /\ UNCHANGED <<mqVars, consVars, classVars, queryVars, cmdVars, egVars, handed>>

\* Mutant: no return after the storage error.
SrvGoesOnAfterStorageError == "marshal"

\* if err != nil { return nil, status.Errorf(codes.InvalidArgument, ...) }
SrvAfterStorageError == "idle"

\* err := s.storage.Create / Delete / Update(ctx, ...)
SrvStorage ==
    /\ spc = "storage"
    /\ \E res \in {"ok", "err"} :
          /\ sstore' = res
          /\ IF res = "err"
             THEN spc' = SrvAfterStorageError /\ sret' = "error"
             ELSE spc' = "marshal" /\ sret' = sret
    /\ UNCHANGED <<mqVars, consVars, classVars, queryVars, cmdVars, egVars, sop, handed, sreqs>>

\* json, err := json.Marshal(...); if err != nil { return nil, err }
SrvMarshal ==
    /\ spc = "marshal"
    /\ \E res \in {"ok", "err"} :
          IF res = "err"
          THEN spc' = "idle" /\ sret' = "error"
          ELSE spc' = "publish" /\ sret' = sret
    /\ UNCHANGED <<mqVars, consVars, classVars, queryVars, cmdVars, egVars, sop, sstore, handed, sreqs>>

\* s.eventHandler.ResilientPublish(ctx, event); return {IsSuccess: true}, nil
SrvPublish ==
    /\ spc = "publish"
    /\ handed' = Append(handed, EventTypeOf(sop))
    /\ sret' = "success"
    /\ spc' = "idle"
    /\ UNCHANGED <<mqVars, consVars, classVars, queryVars, cmdVars, egVars, sop, sstore, sreqs>>

(* ----------------- query.DB: pkg/storage/query/crud.go ----------------- *)
\* fmt.Sprintf("%s:%s", articlesPrefix, key)
addArticlesPrefix(id) == <<"articles:", id>>

\* The id itself used as a key.
Unprefixed(id) == <<"", id>>

\* Redis commands on the hashes: a hash holds the fields of one article,
\* of which the title is kept (0: no such key).
HSet(h, key, title) == [h EXCEPT ![key] = title]
HGetAll(h, key) == h[key]
Del(h, key) == [h EXCEPT ![key] = 0]

\* cmd.Scan(&article): the fields of the reply, none if it is empty.
Scan(id, title) == IF title = 0 THEN NoArticle ELSE [id |-> id, title |-> title]

\* DB.Get
Get(h, id) == Scan(id, HGetAll(h, addArticlesPrefix(id)))

\* SORT articles BY articles:*->title ALPHA: a missing title sorts first,
\* equal titles are ordered by the member.
SortsBefore(h, a, b) ==
    LET ta == HGetAll(h, addArticlesPrefix(a))
        tb == HGetAll(h, addArticlesPrefix(b))
    IN  ta < tb \/ (ta = tb /\ a < b)

RECURSIVE Sort(_, _)
Sort(h, members) ==
    IF members = {} THEN <<>>
    ELSE LET first == CHOOSE a \in members :
                          \A b \in members \ {a} : SortsBefore(h, a, b)
         IN  <<first>> \o Sort(h, members \ {first})

\* LIMIT offset count
Limit(seq, off, count) == SubSeq(seq, off + 1, Min(off + count, Len(seq)))

\* DB.GetMultiple
GetMultiple(h, index, off, count) ==
    LET ids == Limit(Sort(h, index), off, count)
    IN  [i \in DOMAIN ids |-> Get(h, ids[i])]

\* db.redis.HSet(ctx, prefixedId, values); db.redis.SAdd(ctx, articlesPrefix, article.Id)
QCreate ==
    \E id \in Ids, title \in Titles :
        /\ qhash' = HSet(qhash, addArticlesPrefix(id), title)
        /\ qindex' = qindex \cup {id}
        /\ qlast' = [qlast EXCEPT ![id] = "created"]
        /\ UNCHANGED <<mqVars, consVars, classVars, srvVars, cmdVars, egVars, qgot, qlist>>

\* return db.Create(ctx, article)
QUpdate ==
    \E id \in Ids, title \in Titles :
        /\ qhash' = HSet(qhash, addArticlesPrefix(id), title)
        /\ qindex' = qindex \cup {id}
        /\ qlast' = [qlast EXCEPT ![id] = "created"]
        /\ UNCHANGED <<mqVars, consVars, classVars, srvVars, cmdVars, egVars, qgot, qlist>>

\* return db.redis.Del(ctx, id).Err()
QDelete ==
    \E id \in Ids :
        /\ qhash' = Del(qhash, Unprefixed(id))
        /\ qlast' = [qlast EXCEPT ![id] = IF qlast[id] = "none" THEN "none" ELSE "deleted"]
        /\ UNCHANGED <<mqVars, consVars, classVars, srvVars, cmdVars, egVars, qindex, qgot, qlist>>

QGet ==
    \E id \in Ids :
        /\ qgot' = Get(qhash, id)
        /\ UNCHANGED <<mqVars, consVars, classVars, srvVars, cmdVars, egVars, qhash, qindex, qlast, qlist>>

QGetMultiple ==
    \E off \in 0..1, count \in 1..MaxIds :
        /\ qlist' = GetMultiple(qhash, qindex, off, count)
        /\ UNCHANGED <<mqVars, consVars, classVars, srvVars, cmdVars, egVars, qhash, qindex, qlast, qgot>>

(* ----------------------- cmd.DB: part_001 22-183 ----------------------- *)
\* esdb.AppendToStreamOptions{}: no expected revision (esdb.Any).
AnyRevision == -2

\* Number of the last event of a stream; events are numbered from 0.
LastEventNumber(s) == Len(s) - 1

\* Mutant: Update appends with no expected revision.
ExpectedRevisionAny(rev) == AnyRevision

\* ExpectedRevision: esdb.Revision(lastEvent.OriginalEvent().EventNumber)
ExpectedRevision(rev) == rev

\* EventStore accepts an append when no revision is expected or the
\* expected one is the number of the stream's last event.
AppendAccepted(s, expected) == expected = AnyRevision \/ expected = LastEventNumber(s)

\* Updates between their call and their return.
UpdatesInFlight == Cardinality({u \in Updaters : upc[u] # "idle"})

\* Room for one more event in the stream.
StreamHasRoom == Len(stream) + UpdatesInFlight < MaxEvents

\* DB.Create: AppendToStream with empty options.
CmdCreate ==
    /\ StreamHasRoom
    /\ stream' = Append(stream, [type |-> "Created", read |-> AnyRevision])
    /\ UNCHANGED <<mqVars, consVars, classVars, srvVars, queryVars, egVars, upc, urev, uret>>

\* DB.Delete: AppendToStream with empty options.
CmdDelete ==
    /\ StreamHasRoom
    /\ stream' = Append(stream, [type |-> "Deleted", read |-> AnyRevision])
    /\ UNCHANGED <<mqVars, consVars, classVars, srvVars, queryVars, egVars, upc, urev, uret>>

\* A goroutine calls DB.Update.
UpdCall(u) ==
    /\ upc[u] = "idle"
    /\ StreamHasRoom
    /\ upc' = [upc EXCEPT ![u] = "read"]
    /\ urev' = [urev EXCEPT ![u] = -1]
    /\ uret' = [uret EXCEPT ![u] = "none"]
    /\ UNCHANGED <<mqVars, consVars, classVars, srvVars, queryVars, egVars, stream>>

\* lastEvent, err := db.lastRevision(ctx, article.Id); if err != nil { return err }
\* Reading a stream that has no event fails.
UpdLastRevision(u) ==
    /\ upc[u] = "read"
    /\ IF stream = <<>>
       THEN /\ upc' = [upc EXCEPT ![u] = "idle"]
            /\ uret' = [uret EXCEPT ![u] = "err"]
            /\ urev' = urev
       ELSE /\ upc' = [upc EXCEPT ![u] = "append"]
            /\ urev' = [urev EXCEPT ![u] = LastEventNumber(stream)]
            /\ uret' = uret
    /\ UNCHANGED <<mqVars, consVars, classVars, srvVars, queryVars, egVars, stream>>

\* _, err = db.client.AppendToStream(ctx, article.Id, appendOpts, eventData); return err
UpdAppend(u) ==
    /\ upc[u] = "append"
    /\ IF AppendAccepted(stream, ExpectedRevision(urev[u]))
       THEN /\ stream' = Append(stream, [type |-> "Updated", read |-> urev[u]])
            /\ uret' = [uret EXCEPT ![u] = "nil"]
       ELSE /\ stream' = stream
            /\ uret' = [uret EXCEPT ![u] = "err"]
    /\ upc' = [upc EXCEPT ![u] = "idle"]
    /\ UNCHANGED <<mqVars, consVars, classVars, srvVars, queryVars, egVars, urev>>

(* ---- error-group connection manager: part_003 lines 361-393, 454-466 ---- *)
\* The send `req <- x` of handleChannelReads finds its receiver: ask is
\* unbuffered and channel() receives from each ask once.
EgReceiverWaits == ereplies = 0

\* Where handleChannelReads goes after Allow() returned an error and it
\* replied nil: nothing leaves the case, it goes on to connection.Channel().
EgAfterReject == "open"

\* A caller enters channel(): ask := make(chan *amqp.Channel)
EgAsk(r) ==
    /\ ~epanicked
    /\ erpc[r] = "idle"
    /\ erpc' = [erpc EXCEPT ![r] = "send"]
    /\ erres' = [erres EXCEPT ![r] = 0]
    /\ UNCHANGED <<mqVars, consVars, classVars, srvVars, queryVars, cmdVars, ebreaker, eperm, epc, ereq, ereplies, eopens, ereports, erejected, epanicked, ectxDone>>

\* case req := <-mq.readChannel, with the caller's mq.readChannel <- ask
EgRecv ==
    /\ ~epanicked
    /\ epc = "select"
    /\ \E r \in EgCallers :
          /\ erpc[r] = "send"
          /\ erpc' = [erpc EXCEPT ![r] = "recv"]
          /\ ereq' = r
    /\ epc' = "allow"
    /\ ereplies' = 0
    /\ eopens' = 0
    /\ ereports' = 0
    /\ erejected' = FALSE
    /\ UNCHANGED <<mqVars, consVars, classVars, srvVars, queryVars, cmdVars, ebreaker, eperm, erres, epanicked, ectxDone>>

\* succedeed, err := mq.breaker.Allow(); if err != nil { req <- nil }
EgAllow ==
    /\ ~epanicked
    /\ epc = "allow"
    /\ IF Admits(ebreaker)
       THEN /\ ebreaker' = onRequest(ebreaker)
            /\ eperm' = "valid"
            /\ epc' = "open"
            /\ UNCHANGED <<ereplies, erejected, erpc, erres>>
       ELSE /\ eperm' = "nil"
            /\ erejected' = TRUE
            /\ ereplies' = ereplies + 1
            /\ erpc' = [erpc EXCEPT ![ereq] = "sleep"]
            /\ erres' = [erres EXCEPT ![ereq] = 0]
            /\ epc' = EgAfterReject
            /\ ebreaker' = ebreaker
    /\ UNCHANGED <<mqVars, consVars, classVars, srvVars, queryVars, cmdVars, ereq, eopens, ereports, epanicked, ectxDone>>

\* channel, err := mq.connection.Channel()
EgOpen ==
    /\ ~epanicked
    /\ epc = "open"
    /\ eopens' = eopens + 1
    /\ \E ok \in BOOLEAN : epc' = IF ok THEN "reportOk" ELSE "replyErr"
    /\ UNCHANGED <<mqVars, consVars, classVars, srvVars, queryVars, cmdVars, ebreaker, eperm, ereq, ereplies, ereports, erejected, erpc, erres, epanicked, ectxDone>>

\* req <- nil (line 379)
EgReplyErr ==
    /\ ~epanicked
    /\ epc = "replyErr"
    /\ EgReceiverWaits
    /\ ereplies' = ereplies + 1
    /\ erpc' = [erpc EXCEPT ![ereq] = "sleep"]
    /\ erres' = [erres EXCEPT ![ereq] = 0]
    /\ epc' = "reportErr"
    /\ UNCHANGED <<mqVars, consVars, classVars, srvVars, queryVars, cmdVars, ebreaker, eperm, ereq, eopens, ereports, erejected, epanicked, ectxDone>>

\* The done function called with `success`: a nil one panics, a stale one
\* changes nothing.
EgReport(success) ==
    IF eperm = "nil"
    THEN /\ epanicked' = TRUE
         /\ UNCHANGED <<ebreaker, eperm, ereports>>
    ELSE /\ ebreaker' = IF eperm = "valid" THEN afterRequest(ebreaker, success) ELSE ebreaker
         /\ eperm' = "stale"
         /\ ereports' = ereports + 1
         /\ epanicked' = epanicked

\* succedeed(false); continue
EgReportErr ==
    /\ ~epanicked
    /\ epc = "reportErr"
    /\ EgReport(FALSE)
    /\ epc' = IF eperm = "nil" THEN epc ELSE "select"
    /\ UNCHANGED <<mqVars, consVars, classVars, srvVars, queryVars, cmdVars, ereq, ereplies, eopens, erejected, erpc, erres, ectxDone>>

\* succedeed(true)
EgReportOk ==
    /\ ~epanicked
    /\ epc = "reportOk"
    /\ EgReport(TRUE)
    /\ epc' = IF eperm = "nil" THEN epc ELSE "replyOk"
    /\ UNCHANGED <<mqVars, consVars, classVars, srvVars, queryVars, cmdVars, ereq, ereplies, eopens, erejected, erpc, erres, ectxDone>>

\* req <- channel
EgReplyOk ==
    /\ ~epanicked
    /\ epc = "replyOk"
    /\ EgReceiverWaits
    /\ ereplies' = ereplies + 1
    /\ erpc' = [erpc EXCEPT ![ereq] = "done"]
    /\ erres' = [erres EXCEPT ![ereq] = 1]
    /\ epc' = "select"
    /\ UNCHANGED <<mqVars, consVars, classVars, srvVars, queryVars, cmdVars, ebreaker, eperm, ereq, eopens, ereports, erejected, epanicked, ectxDone>>

\* channel(): time.Sleep(mq.config.ReconnectInterval), then the next ask
EgWake(r) ==
    /\ ~epanicked
    /\ erpc[r] = "sleep"
    /\ erpc' = [erpc EXCEPT ![r] = "send"]
    /\ UNCHANGED <<mqVars, consVars, classVars, srvVars, queryVars, cmdVars, ebreaker, eperm, epc, ereq, ereplies, eopens, ereports, erejected, erres, epanicked, ectxDone>>

\* channel(): return channel
EgReturn(r) ==
    /\ ~epanicked
    /\ erpc[r] = "done"
    /\ erpc' = [erpc EXCEPT ![r] = "idle"]
    /\ UNCHANGED <<mqVars, consVars, classVars, srvVars, queryVars, cmdVars, ebreaker, eperm, epc, ereq, ereplies, eopens, ereports, erejected, erres, epanicked, ectxDone>>

\* Settings.Timeout elapsed: Open becomes HalfOpen.
EgBreakerTimeout ==
    /\ ~epanicked
    /\ ebreaker.state = "open"
    /\ ebreaker' = toNewGeneration("halfopen")
    /\ eperm' = IF eperm = "valid" THEN "stale" ELSE eperm
    /\ UNCHANGED <<mqVars, consVars, classVars, srvVars, queryVars, cmdVars, epc, ereq, ereplies, eopens, ereports, erejected, erpc, erres, epanicked, ectxDone>>

\* The context of Run is cancelled.
EgCancel ==
    /\ ~epanicked
    /\ ~ectxDone
    /\ ectxDone' = TRUE
    /\ UNCHANGED <<mqVars, consVars, classVars, srvVars, queryVars, cmdVars, ebreaker, eperm, epc, ereq, ereplies, eopens, ereports, erejected, erpc, erres, epanicked>>

\* case <-ctx.Done(): return ctx.Err()
EgStop ==
    /\ ~epanicked
    /\ epc = "select"
    /\ ectxDone
    /\ epc' = "returned"
    /\ UNCHANGED <<mqVars, consVars, classVars, srvVars, queryVars, cmdVars, ebreaker, eperm, ereq, ereplies, eopens, ereports, erejected, erpc, erres, epanicked, ectxDone>>

(* --------------------------- specifications --------------------------- *)
\* The goroutines run beside one another in every combination; each
\* specification below puts together the ones a group of properties is
\* about, the others standing still (no caller calls them).

\* Steps of channel() after the call, of the arbiter and of its workers.
ArbiterSteps ==
    \/ \E r \in Requesters : ChannelRetry(r)
    \/ \E r \in Requesters : ArbRecv(r)
    \/ ArbSpawn
    \/ \E w \in Workers : WAllow(w)
    \/ \E w \in Workers : WOpen(w)
    \/ \E w \in Workers : WErrReport(w)
    \/ \E w \in Workers : WOkReport(w)
    \/ \E w \in Workers : WRelease(w)

\* Steps of ReDial and dial.
DialSteps ==
    \/ \E p \in Redialers : ReDialWake(p)
    \/ \E p \in Redialers : DialAllow(p)
    \/ \E p \in Redialers : DialCall(p)
    \/ \E p \in Redialers : DialErrClassify(p)
    \/ \E p \in Redialers : DialErrReturn(p)
    \/ \E p \in Redialers : DialOkReport(p)
    \/ \E p \in Redialers : DialLock(p)
    \/ \E p \in Redialers : DialInstall(p)

\* Steps of the publish pipeline.
PipelineSteps ==
    \/ PubTake
    \/ PubPrepare
    \/ PubPublish
    \/ PubRequeue

\* The arbiter with NumCallers requesters, its workers, the breaker and
\* connections that break.
NextArbiter ==
    \/ \E r \in Callers : ChannelCall(r)
    \/ \E r \in Callers : ChannelReturn(r)
    \/ ArbiterSteps
    \/ \E c \in Conns : ConnLost(c)
    \/ BreakerTimeout
    \/ BreakerInterval

SpecArbiter == Init /\ [][NextArbiter]_vars

\* The breaker under dial attempts and channel-open attempts: a caller of
\* ReDial beside the arbiter with NumDialCallers requesters.
DialCallers == 1..NumDialCallers

NextBreaker ==
    \/ \E r \in DialCallers : ChannelCall(r)
    \/ \E r \in Callers : ChannelReturn(r)
    \/ ArbiterSteps
    \/ ReDialCall
    \/ DialSteps
    \/ BreakerTimeout
    \/ BreakerInterval

SpecBreaker == Init /\ [][NextBreaker]_vars

\* The connection: handleConnectionErrors, a caller of ReDial, Close, the
\* loops that watch the context, and the broker.
NextConn ==
    \/ HceSelect
    \/ ReDialCall
    \/ DialSteps
    \/ CloseShutdown
    \/ CloseConn
    \/ ArbDone
    \/ PubStop
    \/ BrokerDown
    \/ BrokerUp
    \/ \E c \in Conns : ConnLost(c)
    \/ BreakerInterval

SpecConn == Init /\ [][NextConn]_vars

\* The resilient publish path: ResilientPublish, the pipeline with its
\* requests to the arbiter, the breaker and the broker.
NextPublish ==
    \/ ResilientPublish
    \/ PipelineSteps
    \/ ArbiterSteps
    \/ HceSelect
    \/ CloseShutdown
    \/ CloseConn
    \/ ArbDone
    \/ PubStop
    \/ BrokerDown
    \/ BrokerUp
    \/ \E c \in Conns : ConnLost(c)
    \/ BreakerTimeout
    \/ BreakerInterval

SpecPublish == Init /\ [][NextPublish]_vars

\* The Go scheduler runs every goroutine that can take a step, and the
\* timers of the breaker and of time.Sleep fire; callers and the broker
\* are under no obligation.
FairPublish ==
    /\ SpecPublish
    /\ WF_vars(PipelineSteps)
    /\ WF_vars(ArbiterSteps)
    /\ WF_vars(HceSelect)
    /\ WF_vars(BreakerTimeout)

\* The consumer: the broker's deliveries, the decode goroutine of Consume,
\* the caller that receives the events, cancellation and the end of the
\* stream.
GoSteps ==
    \/ GoReceive
    \/ GoSend
    \/ GoReturn

NextConsume ==
    \/ Deliver
    \/ ConsumeCancel
    \/ MessagesClose
    \/ GoSteps
    \/ CallerStop

SpecConsume == Init /\ [][NextConsume]_vars

\* The scheduler runs the goroutine when it can take a step, and a stream
\* whose context is cancelled gets closed.
FairConsume ==
    /\ SpecConsume
    /\ WF_vars(GoSteps)
    /\ WF_vars(ctxDone /\ MessagesClose)

\* Shutdown while callers are inside channel(): the arbiter with
\* NumDialCallers requesters, Close() and the loop's exit on ctx.Done().
NextShutdown ==
    \/ \E r \in DialCallers : ChannelCall(r)
    \/ \E r \in Callers : ChannelReturn(r)
    \/ ArbiterSteps
    \/ ArbDone
    \/ CloseShutdown
    \/ CloseConn
    \/ BreakerTimeout
    \/ BreakerInterval

SpecShutdown == Init /\ [][NextShutdown]_vars

\* Every goroutine that can take a step is run, timers fire, the caller of
\* Close() finishes it, and a select with ctx.Done() ready again and again
\* takes that case in the end.
FairShutdown ==
    /\ SpecShutdown
    /\ WF_vars(ArbiterSteps)
    /\ WF_vars(\E r \in Callers : ChannelReturn(r))
    /\ WF_vars(CloseConn)
    /\ WF_vars(BreakerTimeout)
    /\ SF_vars(ArbDone)

\* errorType under every code up to MaxCode.
NextClassify == ErrorTypeCall

SpecClassify == Init /\ [][NextClassify]_vars

\* The RPC handlers of the article server.
NextServer ==
    \/ SrvCall
    \/ SrvStorage
    \/ SrvMarshal
    \/ SrvPublish

SpecServer == Init /\ [][NextServer]_vars

\* The read store under every order of its calls.
NextQuery ==
    \/ QCreate
    \/ QUpdate
    \/ QDelete
    \/ QGet
    \/ QGetMultiple

SpecQuery == Init /\ [][NextQuery]_vars

\* The event store of one article: its updaters beside Create and Delete.
NextCmd ==
    \/ CmdCreate
    \/ CmdDelete
    \/ \E u \in Updaters : UpdCall(u)
    \/ \E u \in Updaters : UpdLastRevision(u)
    \/ \E u \in Updaters : UpdAppend(u)

SpecCmd == Init /\ [][NextCmd]_vars

\* handleChannelReads of the error-group variant and the callers of
\* channel().
NextErrGroup ==
    \/ \E r \in EgCallers : EgAsk(r)
    \/ EgRecv
    \/ EgAllow
    \/ EgOpen
    \/ EgReplyErr
    \/ EgReportErr
    \/ EgReportOk
    \/ EgReplyOk
    \/ \E r \in EgCallers : EgWake(r)
    \/ \E r \in EgCallers : EgReturn(r)
    \/ EgBreakerTimeout
    \/ EgCancel
    \/ EgStop

SpecErrGroup == Init /\ [][NextErrGroup]_vars

(* ------------------------------- claims -------------------------------- *)
\* Worker goroutines between taking a limiter slot and releasing it.
InFlight == Cardinality({w \in Workers : wpc[w] # "none"})
\* Requests made and not yet answered.
Waiting == Cardinality({r \in Requesters : rpc[r] \in {"send", "wait"}})

\* C1: with max workers = k and more than k goroutines requesting a channel
\* at the same time, the number of in-flight channel-open calls never
\* exceeds k.
C1_InFlightBounded == InFlight <= MaxWorkers

\* C1 witness: k workers are in flight while more than k requests are
\* unanswered and the arbiter holds one of them back at the limiter.
C1_Witness ==
    /\ InFlight = MaxWorkers
    /\ Waiting > MaxWorkers
    /\ apc = "limiter"

\* A step of ResilientPublish.
RPStep == nextMsg' = nextMsg + 1

\* C3: ResilientPublish never blocks: with QueueSize messages queued it
\* returns a capacity error and leaves the queue unchanged, with room it
\* enqueues the message and returns nil, whatever the state of the broker
\* connection; the queue never holds more than QueueSize messages.
C3_Step ==
    RPStep =>
        IF Len(publishQueue) = QueueSize
        THEN rpRet' = "full" /\ publishQueue' = publishQueue
        ELSE rpRet' = "nil" /\ publishQueue' = Append(publishQueue, nextMsg + 1)

C3_Inv ==
    /\ Len(publishQueue) <= QueueSize
    /\ (Running /\ nextMsg < MaxMsgs) => ENABLED ResilientPublish

ValidCount ==
    Cardinality({w \in Workers : wperm[w] = "valid"})
    + Cardinality({p \in Redialers : dperm[p] = "valid"})

\* A worker calls succedeed(false), a dial calls callSucceded(false).
WorkerReportsFailure(w) == wpc[w] = "errReport" /\ wpc'[w] = "release"
DialReportsFailure(p) ==
    /\ dpc[p] = "errReport" /\ dpc'[p] = "errReport2"
    /\ dres[p] # NetError /\ isConnectionError(dres[p])
\* A worker calls succedeed(true), a dial calls callSucceded(true).
WorkerReportsSuccess(w) == wpc[w] = "okReport" /\ wpc'[w] = "release"
DialReportsSuccess(p) == dpc[p] \in {"okReport", "errReport2"} /\ dpc'[p] # dpc[p]

\* C6 (as claimed): a channel-level broker error is never reported to the
\* breaker as a failure, neither by a dial attempt nor by a channel-open
\* attempt of the arbiter: the step that handles such an error neither
\* raises the failure count nor opens the breaker.
C6_Step ==
    /\ \A w \in Workers :
          (wpc[w] = "errReport" /\ wpc'[w] # "errReport"
              /\ errorType(wres[w]) = channelError)
          => (breaker'.fail <= breaker.fail /\ breaker'.state # "open")
    /\ \A p \in Redialers :
          (dpc[p] \in {"errReport", "errReport2"} /\ dpc'[p] # dpc[p]
              /\ dres[p] # NetError /\ errorType(dres[p]) = channelError)
          => (breaker'.fail <= breaker.fail /\ breaker'.state # "open")

C6_ChannelErrorNeverFailure == [][C6_Step]_vars

\* C7 (as claimed): a connection-level error returned by a dial attempt is
\* counted by the breaker as a failure: while the breaker stays in the
\* generation of the attempt, no step of that dial() takes the failure
\* off the count again, so that repeated ones pass the threshold and open
\* the breaker.
C7_Step ==
    \A p \in Redialers :
        (dpc[p] \in {"errReport", "errReport2"} /\ dpc'[p] # dpc[p]
            /\ dres[p] # NetError /\ isConnectionError(dres[p])
            /\ dperm[p] = "valid" /\ breaker.state = "closed")
        => (breaker'.state = "open" \/ breaker'.fail >= breaker.fail)

C7_ConnectionErrorCounted == [][C7_Step]_vars

\* C8 (as claimed): while the breaker is Open no dial to the broker and no
\* channel-open call on the connection is performed.
C8_NoCallStep ==
    breaker.state = "open" =>
        /\ \A p \in Redialers : dpc[p] = "dial" => dpc'[p] = "dial"
        /\ \A w \in Workers : wpc[w] = "open" => wpc'[w] = "open"

C8_NoCallWhileOpen == [][C8_NoCallStep]_vars

\* C8 (amended): while the breaker is Open no attempt is admitted: a
\* dial() that asks the breaker returns its error without calling the
\* broker, and a worker that asks it replies nil to the requester without
\* opening a channel.
C8_Step ==
    breaker.state = "open" =>
        /\ \A p \in Redialers :
              (dpc[p] = "allow" /\ dpc'[p] # "allow")
              => (dpc'[p] = "sleep" /\ connState' = connState /\ dres' = dres)
        /\ \A w \in Workers :
              (wpc[w] = "allow" /\ wpc'[w] # "allow")
              => (wpc'[w] = "release" /\ wres' = wres
                    /\ rpc'[wreq[w]] = "sleep" /\ rres'[wreq[w]] = 0)

C8_OpenAdmitsNothing == [][C8_Step]_vars

\* C8 witness: the breaker is Open, a worker was rejected and replied nil
\* without a call to the connection, and a redialer asks the breaker.
C8_Witness ==
    /\ breaker.state = "open"
    /\ \E w \in Workers :
          wpc[w] = "release" /\ wres[w] = 0 /\ rpc[wreq[w]] = "sleep"
    /\ \E p \in Redialers : dpc[p] = "allow"

\* C9: while the breaker is HalfOpen at most MaxRequests attempts (dial and
\* channel-open together, concurrent ones included) are admitted; a failure
\* reported by one of them returns the breaker to Open; the breaker returns
\* to Closed only by the success report that makes MaxRequests successes.
C9_Inv == breaker.state = "halfopen" => ValidCount + breaker.succ <= MaxRequests

C9_Step ==
    /\ \A w \in Workers :
          (WorkerReportsFailure(w) /\ wperm[w] = "valid" /\ breaker.state = "halfopen")
          => breaker'.state = "open"
    /\ \A p \in Redialers :
          (DialReportsFailure(p) /\ dperm[p] = "valid" /\ breaker.state = "halfopen")
          => breaker'.state = "open"
    /\ (breaker.state = "halfopen" /\ breaker'.state = "closed")
          => /\ breaker.succ + 1 = MaxRequests
             /\ \/ \E w \in Workers : WorkerReportsSuccess(w) /\ wperm[w] = "valid"
                \/ \E p \in Redialers : DialReportsSuccess(p) /\ dperm[p] = "valid"

C9_HalfOpenProbes == [](C9_Inv) /\ [][C9_Step]_vars

\* C9 witness: HalfOpen with MaxRequests probes running, a dial and a
\* channel-open among them, and one more attempt rejected.
C9_Witness ==
    /\ breaker.state = "halfopen"
    /\ ValidCount = MaxRequests
    /\ \E w \in Workers : wperm[w] = "valid"
    /\ \E p \in Redialers : dperm[p] = "valid"
    /\ \E w \in Workers : wpc[w] = "release" /\ wres[w] = 0

\* The connection the client holds is a broken one and the client was not
\* shut down: it was lost to a broker error.
ConnectionLost ==
    /\ ~cancelled
    /\ connection # 0
    /\ connState[connection] = "closed"

\* C4 (as claimed): whenever the current connection is lost with a
\* connection-level error, a close notification reaches the redial loop
\* and the loop dials again: the notification is in notifyConnClose, or
\* handleConnectionErrors is in ReDial.
C4_LossReachesRedialLoop ==
    ConnectionLost => (Len(notifyConnClose) > 0 \/ hpc = "redial")

\* C5 (as claimed): once the root context is cancelled while the broker
\* stays unreachable, ReDial makes no further dial attempt: no ReDial goes
\* from its sleep to the next dial().
C5_Step ==
    \A p \in Redialers :
        (cancelled /\ ~brokerUp /\ dpc[p] = "sleep") => dpc'[p] # "allow"

C5_NoDialAfterCancel == [][C5_Step]_vars

\* Close() has returned (nil or an error).
CloseReturned == cpc = "idle" /\ closeRet # "none"

\* C10 (as claimed): in every state after Close() has returned the client
\* holds no open broker connection, whatever redial was in progress when
\* Close() was called.
C10_NoOpenConnectionAfterClose ==
    CloseReturned => ~(connection # 0 /\ connState[connection] = "open")

\* A message ResilientPublish accepted that the broker has not got yet.
Pending(m) == m <= nextMsg /\ m \notin published /\
              (m = pmsg \/ \E i \in 1..Len(publishQueue) : publishQueue[i] = m)

\* C2 (as claimed): every message accepted by ResilientPublish is published
\* in the end, provided that from some time on the broker stays reachable
\* and the client is neither shut down nor dead.
C2_EventuallyPublished ==
    <>[](brokerUp /\ ~cancelled /\ ~panicked)
        => \A m \in Msgs : (Pending(m) ~> m \in published)

\* C11: Close() is idempotent: a Close() called after a Close() that
\* returned nil returns nil, closes no connection and changes nothing of
\* the client's state.
C11_Step ==
    /\ (closeRet = "nil" /\ cpc = "idle" /\ cpc' = "check")
          => UNCHANGED <<connVars, breakerVars, reqVars, arbVars, dialVars, pubVars, closeRet>>
    /\ (closeRet = "nil" /\ cpc = "check" /\ cpc' = "idle")
          => UNCHANGED <<connVars, breakerVars, reqVars, arbVars, dialVars, pubVars, closeRet>>

LiveConns == {c \in Conns : connState[c] = "open"}

\* C12 (as claimed): in every reachable state the client has at most one
\* open broker connection, for any interleaving of close notifications,
\* the redial loop and calls of the exported ReDial.
C12_AtMostOneLive == Cardinality(LiveConns) <= 1

\* A worker reads mq.connection (to call Channel() on it); Close() reads it.
WorkerReadsConnection(w) == wpc[w] = "open" /\ wpc'[w] # "open"
CloseReadsConnection == cpc = "check" /\ cpc' # "check"

\* C13 (as claimed): every reader of the connection reference reads it
\* under the connection mutex, so no read by an arbiter worker or by
\* Close() takes place while a dial() holds the mutex for its write.
C13_Step ==
    MutexHeld =>
        /\ \A w \in Workers : ~WorkerReadsConnection(w)
        /\ ~CloseReadsConnection

C13_ReadsUnderMutex == [][C13_Step]_vars

\* A wire message decodes.
Decodes(body) == ~Unmarshal(body).err

\* The decoded sub-sequence of a sequence of wire messages: the events of
\* the messages that decode, in arrival order.
DecodedSubsequence(ms) ==
    LET ok == SelectSeq(ms, Decodes)
    IN  [i \in 1..Len(ok) |-> Unmarshal(ok[i]).event]

\* Events the goroutine has produced: those the caller received and the
\* one it is sending.
Produced == events \o (IF gpc = "send" THEN <<gevent>> ELSE <<>>)

\* C14: the events produced on the returned channel are exactly the decoded
\* sub-sequence of the wire messages received so far, in arrival order; a
\* message that fails to decode produces nothing and does not stop the
\* loop, which ends only when the stream is closed and drained.
C14_DecodedInOrder ==
    /\ Produced = DecodedSubsequence(consumed)
    /\ gpc = "done" => (messagesClosed /\ messages = <<>>)

\* C14 witness: a malformed message, then a valid one and another valid
\* one were received, and the caller got exactly the two events.
C14_Witness ==
    /\ Len(consumed) = 3
    /\ ~Decodes(consumed[1]) /\ Decodes(consumed[2]) /\ Decodes(consumed[3])
    /\ Len(events) = 2

\* C15 (as claimed): the decode loop started by Consume terminates once
\* the context is cancelled or the message stream is closed, also when
\* the caller has stopped receiving from the returned channel.
C15_LoopTerminates == (ctxDone \/ messagesClosed) ~> (gpc = "done")

\* C16 (as claimed): no error of a dial attempt terminates the process:
\* dial() returns it to its caller as a value and no panic is reachable.
C16_NoPanic == ~panicked

\* The breaker, Open, rejects worker w, which replies to the requester.
WorkerRejectedWhileOpen(w) ==
    /\ breaker.state = "open"
    /\ wpc[w] = "allow" /\ wpc'[w] # "allow"

\* C17 (as claimed): when the breaker is Open, a direct operation that asks
\* for a channel gets the rejection back at once, as the outcome of its
\* call: it is not put to sleep to ask again, which only the resilient
\* path (the pipeline) does.
C17_Step ==
    \A w \in Workers :
        (WorkerRejectedWhileOpen(w) /\ wreq[w] \in Callers)
        => rpc'[wreq[w]] # "sleep"

C17_RejectionSurfaced == [][C17_Step]_vars

\* Who holds the reply slot of requester r and has not replied on it yet:
\* the arbiter at the limiter, or a worker before its reply.
Holders(r) ==
    (IF apc = "limiter" /\ areq = r THEN {0} ELSE {})
    \cup {w \in Workers : wreq[w] = r /\ wpc[w] \in {"allow", "open", "okReport"}}

\* Requester r gets a reply on its slot.
Replied(r) == rpc[r] = "wait" /\ rpc'[r] # "wait"

\* C18: for every request the arbiter received, exactly one holder will
\* reply on its slot and nobody replies on a slot already answered; the
\* reply is the opened channel on success and nil on breaker rejection or
\* open failure; a worker makes one channel-open attempt at most and never
\* goes back to the breaker or to Channel() after its attempt.
C18_Inv ==
    \A r \in Requesters :
        Cardinality(Holders(r)) = (IF rpc[r] = "wait" THEN 1 ELSE 0)

C18_Step ==
    /\ \A r \in Requesters :
          Replied(r) =>
              \E w \in Workers :
                  /\ wreq[w] = r
                  /\ \/ wpc[w] = "allow" /\ ~Admits(breaker)
                        /\ rpc'[r] = "sleep" /\ rres'[r] = 0
                     \/ wpc[w] = "open" /\ wres'[w] \notin Conns
                        /\ rpc'[r] = "sleep" /\ rres'[r] = 0
                     \/ wpc[w] = "okReport" /\ wres[w] \in Conns
                        /\ rpc'[r] = "got" /\ rres'[r] = wres[w]
    /\ \A w \in Workers :
          wpc[w] \in {"okReport", "errReport", "release"}
          => wpc'[w] \notin {"allow", "open"}

C18_OneAttemptOneReply == [](C18_Inv) /\ [][C18_Step]_vars

\* C18 witness: one request was answered with a channel and another with
\* nil after its worker's only attempt failed.
C18_Witness ==
    /\ \E r \in Requesters : rpc[r] = "got"
    /\ \E w \in Workers :
          /\ wpc[w] = "errReport"
          /\ wreq[w] \in Requesters
          /\ rpc[wreq[w]] = "sleep"

\* channel() of requester r returns to its caller.
ChannelReturns(r) == rpc[r] = "got"

\* C19: channel() returns only a non-nil channel: on a nil reply the
\* caller waits the reconnect interval and then sends a new request; it
\* returns only from a reply that carried a channel, and no reply is
\* outstanding on an older slot when it asks again.
C19_Inv ==
    \A r \in Requesters :
        /\ ChannelReturns(r) => rres[r] \in Conns
        /\ rpc[r] \in {"sleep", "send"} => (rres[r] = 0 /\ Holders(r) = {})

C19_Step ==
    \A r \in Requesters :
        /\ (Replied(r) /\ rres'[r] = 0) => rpc'[r] = "sleep"
        /\ rpc[r] = "sleep" => rpc'[r] \in {"sleep", "send"}

C19_ChannelNeverNil == [](C19_Inv) /\ [][C19_Step]_vars

\* C19 witness: one caller's channel() returns a channel while another
\* caller sleeps after a nil reply.
C19_Witness ==
    /\ \E r \in Requesters : ChannelReturns(r) /\ rres[r] \in Conns
    /\ \E r \in Requesters : rpc[r] = "sleep" /\ rres[r] = 0

\* Requester r is inside channel().
InsideChannel(r) == rpc[r] \in {"send", "wait", "sleep"}

\* C20 (as claimed): after Close() no caller stays blocked for ever: a
\* goroutine that is inside channel(), waiting to hand over its request
\* or waiting for the reply, is released in the end.
C20_CallersReleased ==
    \A r \in DialCallers : (cancelled /\ InsideChannel(r)) ~> ~InsideChannel(r)

\* The codes the claim lists as channel-level.
ChannelLevelCodes == {311, 313, 403, 404, 405, 406}

\* C21: errorType is total and two-valued: for every code it returns
\* connection-level or channel-level; it returns channel-level exactly for
\* ContentTooLarge, NoConsumers, AccessRefused, NotFound, ResourceLocked
\* and PreconditionFailed, and connection-level for every other code,
\* codes amqp does not define included.
C21_ErrorTypeTotal ==
    errCode # -1 =>
        /\ errClass \in {connectionError, channelError}
        /\ connectionError # channelError
        /\ errClass = channelError <=> errCode \in ChannelLevelCodes

\* C21 witness: a code amqp does not define was classified connection-level.
C21_Witness == errCode = 599 /\ errClass = connectionError

DialReportsMade(p) ==
    IF dpc[p] = "errReport2" /\ dres[p] # NetError /\ isConnectionError(dres[p])
    THEN 1
    ELSE 0

\* C23 (as claimed): each permission granted by breaker.Allow() is
\* followed by exactly one report call and none is reported twice: a
\* dial() that calls its report function has not called it before on the
\* same permission.
C23_Step ==
    \A p \in Redialers :
        (DialReportsSuccess(p) \/ DialReportsFailure(p)) => DialReportsMade(p) = 0

C23_OneReportPerPermission == [][C23_Step]_vars

\* The handler returns.
SrvReturns == spc # "idle" /\ spc' = "idle"

\* C24: in Create, Update and Delete an event is handed to ResilientPublish
\* only after the storage operation of the same request has succeeded, and
\* it is the event of that RPC; when the storage operation fails the
\* handler returns an error, hands over no event and reports no success.
C24_Step ==
    /\ handed' # handed
          => /\ sstore = "ok" /\ sstore' = "ok"
             /\ handed' = Append(handed, EventTypeOf(sop))
    /\ (SrvReturns /\ sstore' = "err")
          => (sret' = "error" /\ handed' = handed)
    /\ sret' = "success" => sstore' = "ok"

C24_Inv == sstore = "err" => (spc = "idle" /\ sret = "error")

C24_PublishAfterStorage == [](C24_Inv) /\ [][C24_Step]_vars

\* C24 witness: a Create whose storage operation succeeded was followed by
\* an Update whose storage operation failed: one event, an error returned.
C24_Witness ==
    /\ handed = <<"Created">>
    /\ sop = "Update" /\ sstore = "err"
    /\ spc = "idle" /\ sret = "error"

\* Ids GetMultiple lists when asked for every article.
ListedIds ==
    LET all == GetMultiple(qhash, qindex, 0, MaxIds)
    IN  {all[i].id : i \in DOMAIN all}

\* C25 (as claimed): in the read store, after Create(article) followed by
\* Delete(article.Id) the article is gone: Get of the id returns no stored
\* fields and GetMultiple does not list the id, the hash key and the
\* index-set membership Create wrote being removed.
C25_DeletedIsGone ==
    \A id \in Ids :
        qlast[id] = "deleted"
            => /\ Get(qhash, id) = NoArticle
               /\ id \notin ListedIds
               /\ HGetAll(qhash, addArticlesPrefix(id)) = 0
               /\ id \notin qindex

\* C26: Update appends the Updated event with the expected revision set to
\* the number of the last event it read: the stream holds no two Updated
\* events made from the same last revision, each follows the event it was
\* made from, an append that is not accepted returns an error, and an
\* Update of a stream with no event returns an error and appends nothing.
C26_Inv ==
    /\ \A i \in DOMAIN stream :
          stream[i].type = "Updated" => stream[i].read = LastEventNumber(SubSeq(stream, 1, i - 1))
    /\ \A i, j \in DOMAIN stream :
          (i # j /\ stream[i].type = "Updated" /\ stream[j].type = "Updated")
              => stream[i].read # stream[j].read

C26_Step ==
    \A u \in Updaters :
        /\ (upc[u] = "read" /\ upc'[u] # "read" /\ stream = <<>>)
              => (upc'[u] = "idle" /\ uret'[u] = "err" /\ stream' = stream)
        /\ (upc[u] = "append" /\ upc'[u] = "idle")
              => \/ stream' = stream /\ uret'[u] = "err"
                 \/ /\ urev[u] = LastEventNumber(stream)
                    /\ stream' = Append(stream, [type |-> "Updated", read |-> urev[u]])
                    /\ uret'[u] = "nil"

C26_ExpectedRevision == [](C26_Inv) /\ [][C26_Step]_vars

\* C26 witness: two Updates read the same last revision; the append of one
\* succeeded and the other returned an error.
C26_Witness ==
    \E u, v \in Updaters :
        /\ u # v
        /\ upc[u] = "idle" /\ upc[v] = "idle"
        /\ urev[u] = urev[v] /\ urev[u] >= 0
        /\ uret[u] = "nil" /\ uret[v] = "err"
        /\ stream[Len(stream)] = [type |-> "Updated", read |-> urev[u]]

\* handleChannelReads waits on a send no goroutine will receive.
EgBlocked == epc \in {"replyErr", "replyOk"} /\ ~EgReceiverWaits

\* C27 (as claimed): in the error-group variant handleChannelReads answers
\* every request exactly once and keeps serving: for a request the breaker
\* rejected it replies nil, makes no channel-open call, calls no report
\* function, and neither blocks nor panics.
C27_RejectedServedOnce ==
    /\ ereplies <= 1
    /\ ~epanicked
    /\ ~EgBlocked
    /\ erejected => (eopens = 0 /\ ereports = 0 /\ erres[ereq] = 0)

====
